---- MODULE Spec2Model ----
(***************************************************************************)
(* A model of osgpkitools/incommon_request.py: the certificate request     *)
(* orchestrator main(), the enrollment call submit_request(), the bounded  *)
(* retrieval poller retrieve_cert() and the connectivity probe             *)
(* test_incommon_connection().  One action per statement group of the      *)
(* script; the responses of the InCommon API are inputs chosen with \E.    *)
(***************************************************************************)
EXTENDS Integers, Sequences, FiniteSets, TLC

(* ------------------------------------------------------------------ *)
(* Program constants                                                   *)
(* ------------------------------------------------------------------ *)
MAX_RETRY_RETRIEVAL == 20
WAIT_RETRIEVAL == 5
WAIT_APPROVAL == 30

(* ------------------------------------------------------------------ *)
(* Bounds of the model                                                 *)
(* ------------------------------------------------------------------ *)
\* longest host list (lines of the hostfile) the model enumerates
MaxHosts == 2

(* ------------------------------------------------------------------ *)
(* Input domains                                                       *)
(* ------------------------------------------------------------------ *)
\* A host is the tuple main builds from a line: common name, then alt names.
HostTuples == { <<"a">>, <<"a", "x">>, <<"b">> }

HostLists == UNION { [1..n -> HostTuples] : n \in 0..MaxHosts }

\* Python None, for the values that are tracking ids and for those that are text.
NoneId == -1
NoneText == "None"

\* No file at a path.
NoFile == "absent"

\* Certificate bodies the collect endpoint may return with a 200.
CertBodies == { "pem1", "pem2" }

\* Responses of POST <enrollurl>: a status with a JSON body, or an exception
\* raised by the transport.  fields is the set of keys of the JSON object.
EnrollResponses ==
    { [exc |-> "none", status |-> 200, fields |-> {"sslId"}, sslId |-> 1],
      [exc |-> "none", status |-> 200, fields |-> {"sslId"}, sslId |-> 0],
      [exc |-> "none", status |-> 200, fields |-> {},        sslId |-> NoneId],
      [exc |-> "none", status |-> 400, fields |-> {},        sslId |-> NoneId],
      [exc |-> "HTTPException", status |-> 0, fields |-> {}, sslId |-> NoneId] }

\* Responses of GET <retrieveurl><sslId>/x509CO.
CollectResponses ==
    { [exc |-> "none", status |-> 200, body |-> b] : b \in CertBodies }
    \cup
    { [exc |-> "none", status |-> 400, body |-> "processing"],
      [exc |-> "BadStatusLine", status |-> 0, body |-> ""],
      [exc |-> "HTTPException", status |-> 0, body |-> ""] }

\* Responses of GET <listingurl>.
ListingResponses ==
    { [exc |-> "none", status |-> 200],
      [exc |-> "none", status |-> 401],
      [exc |-> "HTTPException", status |-> 0] }

(* ------------------------------------------------------------------ *)
(* Pure helpers                                                        *)
(* ------------------------------------------------------------------ *)
\* Python truthiness of a tracking id: None and 0 are false.
Truthy(x) == x # NoneId /\ x # 0

\* set(hosts): identical tuples collapse.
HostSet(hs) == { hs[i] : i \in DOMAIN hs }

\* utils.Csr(common_name, certdir, altnames=sans) for host tuple h.
Csr(h) == [common_name |-> Head(h), altnames |-> Tail(h)]

\* str(csr.x509request.get_subject()): the text "/CN=<common name>",
\* kept as its two sides of the "=".
Subject(csr) == << "/CN", csr.common_name >>

\* os.path.join(certdir, subj.split("=")[1] + '-cert.pem')
CertPath(subj) == << subj[2], "-cert.pem" >>

\* csr.final_keypath
KeyPath(csr) == << csr.common_name, "-key.pem" >>

Paths == { << Head(h), s >> : h \in HostTuples, s \in {"-cert.pem", "-key.pem"} }
CertPaths == { p \in Paths : p[2] = "-cert.pem" }

\* Mutant: a status other than 200 is raised as an exception.
submit_requestRaiseOnStatus(resp) ==
    IF resp.exc # "none" THEN [raised |-> resp.exc, value |-> NoneId]
    ELSE IF resp.status = 200
         THEN IF "sslId" \in resp.fields
              THEN [raised |-> "none", value |-> resp.sslId]
              ELSE [raised |-> "KeyError", value |-> NoneId]
         ELSE [raised |-> "HTTPException", value |-> NoneId]

\* submit_request: what it returns or raises for one response of the API.
submit_request(resp) ==
    IF resp.exc # "none" THEN [raised |-> resp.exc, value |-> NoneId]
    ELSE IF resp.status = 200
         THEN IF "sslId" \in resp.fields
              THEN [raised |-> "none", value |-> resp.sslId]
              ELSE [raised |-> "KeyError", value |-> NoneId]
         ELSE [raised |-> "none", value |-> NoneId]

\* The exit status main's handlers give each exception (sys.exit with a
\* string prints it and exits with status 1).
ExitCodeFor(e) == IF e = "none" THEN 0 ELSE 1

(* ------------------------------------------------------------------ *)
(* State                                                               *)
(* ------------------------------------------------------------------ *)
VARIABLES
    test,           \* ARGS['test']
    hosts,          \* the list of host tuples main read
    preexisting,    \* certificate paths that hold a file when main starts
    pc,             \* position of main
    csrs,           \* list of Csr objects
    si,             \* position of the submission loop in csrs
    requests,       \* list of (sslId, subj)
    enrolled,       \* how each POST to the enroll endpoint ended, per csr
    keyWritten,     \* positions in csrs whose write_pkey has run
    restclient,     \* the shared client: "open" or "closed"
    waits,          \* time.sleep(WAIT_APPROVAL) calls
    ri,             \* position of the retrieval loop in requests
    attempt,        \* iterations of retrieve_cert's loop completed
    queries,        \* get_request calls of the current retrieve_cert call
    sleeps,         \* time.sleep(WAIT_RETRIEVAL) calls of the current call
    nPending,       \* queries of the current call that ended in BadStatusLine
                    \* or in a framed response whose status is not 200
    onlyPending,    \* no query of the current call got a framed non-200 response
    lastOutcome,    \* how the latest query of the current call ended
    okBody,         \* body of the 200 response of the current call
    response_data,  \* retrieve_cert's local
    connOpen,       \* retrieval clients created and not closed
    clientQueries,  \* queries made on the client the current iteration uses
    queried,        \* some retrieval query was made in this run
    results,        \* what retrieve_cert returned, per ticket
    calls,          \* the tickets retrieve_cert was called for, in order
    renamed,        \* tickets whose safe_rename has run
    written,        \* tickets whose atomic_write has run
    files,          \* content at each path
    aside,          \* files renamed aside: <<path, content>>
    exc,            \* the exception that reached main's handlers
    exitCode,       \* -1 while running
    reported,       \* the two numbers of the summary
    probes,         \* GETs of the listing endpoint
    probeStatus     \* status of the listing response, 0 before it

vars == << test, hosts, preexisting, pc, csrs, si, requests, enrolled, keyWritten, restclient, waits,
           ri, attempt, queries, sleeps, nPending, onlyPending, lastOutcome, okBody,
           response_data, connOpen, clientQueries, queried, results, calls,
           renamed, written, files, aside, exc, exitCode, reported, probes,
           probeStatus >>

submitVars == << csrs, si, requests, enrolled, keyWritten, restclient, waits >>
pollVars == << attempt, queries, sleeps, nPending, onlyPending, lastOutcome, okBody,
               response_data, connOpen, clientQueries, queried >>
retrVars == << ri, results, calls, renamed, written >>
inputVars == << test, hosts, preexisting >>
fsVars == << files, aside >>
probeVars == << probes, probeStatus >>

\* State after main has parsed its arguments and created the shared client
\* (lines 346-358) and, outside test mode, read the host list (367-375).
Init ==
    /\ test \in BOOLEAN
    /\ hosts \in (IF test THEN { << >> } ELSE HostLists)
    /\ pc = "main"
    /\ csrs = << >>
    /\ si = 1
    /\ requests = << >>
    /\ enrolled = << >>
    /\ keyWritten = {}
    /\ restclient = "open"
    /\ waits = 0
    /\ ri = 1
    /\ attempt = 0
    /\ queries = 0
    /\ sleeps = 0
    /\ nPending = 0
    /\ onlyPending = TRUE
    /\ lastOutcome = "none"
    /\ okBody = NoneText
    /\ response_data = NoneText
    /\ connOpen = 0
    /\ clientQueries = 0
    /\ queried = FALSE
    /\ results = << >>
    /\ calls = << >>
    /\ renamed = {}
    /\ written = {}
    /\ preexisting \in SUBSET CertPaths
    /\ files = [p \in Paths |-> IF p \in preexisting THEN "old" ELSE NoFile]
    /\ aside = << >>
    /\ exc = "none"
    /\ exitCode = -1
    /\ reported = << >>
    /\ probes = 0
    /\ probeStatus = 0

\* An exception reaches main's handlers: the run ends with the handler's status.
Abort(e) ==
    /\ pc' = "done"
    /\ exc' = e
    /\ exitCode' = ExitCodeFor(e)

(* ------------------------------------------------------------------ *)
(* Connectivity test mode (main 360-364, test_incommon_connection)     *)
(* ------------------------------------------------------------------ *)
\* Mutant: a status other than 200 is raised as an authentication failure.
ProbeRaisesOnFailure(status) ==
    IF status = 200 THEN "none" ELSE "AuthenticationFailure"

\* What test_incommon_connection raises for the status of the listing
\* response: both branches of lines 250-256 only print.
ProbeRaises(status) == "none"

\* One GET of the listing endpoint.  Both statuses are only reported; an
\* exception of get_request is outside the function's try and reaches main.
\* After the function returns main closes the client and exits with 0.
TestConnection ==
    /\ pc = "main"
    /\ test
    /\ \E resp \in ListingResponses :
          /\ probes' = probes + 1
          /\ probeStatus' = resp.status
          /\ IF resp.exc # "none"
             THEN /\ Abort(resp.exc)
                  /\ UNCHANGED restclient
             ELSE IF ProbeRaises(resp.status) # "none"
                  THEN /\ Abort(ProbeRaises(resp.status))
                       /\ UNCHANGED restclient
                  ELSE /\ restclient' = "closed"
                       /\ Abort("none")
    /\ UNCHANGED << inputVars, csrs, si, requests, enrolled, keyWritten, waits, pollVars,
                    retrVars, fsVars, reported >>

(* ------------------------------------------------------------------ *)
(* CSR construction (main 380-390)                                     *)
(* ------------------------------------------------------------------ *)
\* The hosts whose Csr object exists.
Built == { << csrs[i].common_name >> \o csrs[i].altnames : i \in DOMAIN csrs }

\* Mutant: a host counts as visited once a Csr has its common name.
PendingByName ==
    { h \in HostSet(hosts) :
         \A i \in DOMAIN csrs : csrs[i].common_name # Head(h) }

\* The elements of set(hosts) the loop has still to visit.
Pending == HostSet(hosts) \ Built

\* The loop over set(hosts) has visited every element.
AllBuilt == Pending = {}

\* Mutant: the loop runs over the list, "for host in hosts".
BuildCsrNoDedup ==
    /\ pc = "main"
    /\ ~test
    /\ Len(csrs) < Len(hosts)
    /\ csrs' = Append(csrs, Csr(hosts[Len(csrs) + 1]))
    /\ UNCHANGED << inputVars, pc, si, requests, enrolled, keyWritten,
                    restclient, waits, pollVars, retrVars, fsVars, exc,
                    exitCode, reported, probeVars >>

\* One iteration of "for host in set(hosts)": the set's order is arbitrary.
BuildCsr ==
    /\ pc = "main"
    /\ ~test
    /\ \E h \in Pending :
          csrs' = Append(csrs, Csr(h))
    /\ UNCHANGED << inputVars, pc, si, requests, enrolled, keyWritten,
                    restclient, waits, pollVars, retrVars, fsVars, exc,
                    exitCode, reported, probeVars >>

\* Mutant: the submission loop starts while hosts are still to be visited.
StartSubmitEarly ==
    /\ pc = "main"
    /\ ~test
    /\ pc' = "submit"
    /\ UNCHANGED << inputVars, submitVars, pollVars, retrVars, fsVars, exc,
                    exitCode, reported, probeVars >>

\* The loop over set(hosts) is over: main goes on to "for csr in csrs".
StartSubmit ==
    /\ pc = "main"
    /\ ~test
    /\ AllBuilt
    /\ pc' = "submit"
    /\ UNCHANGED << inputVars, submitVars, pollVars, retrVars, fsVars, exc,
                    exitCode, reported, probeVars >>

(* ------------------------------------------------------------------ *)
(* Submission (main 392-402, submit_request)                           *)
(* ------------------------------------------------------------------ *)
\* How the model names the way a POST to the enroll endpoint ended.
EnrollOutcome(resp) ==
    IF resp.exc # "none" THEN "exception"
    ELSE IF resp.status # 200 THEN "non200"
    ELSE IF "sslId" \notin resp.fields THEN "nofield"
    ELSE IF Truthy(resp.sslId) THEN "id"
    ELSE "falsy"

\* Mutant: the test of the returned value is missing.
CreatesTicketAlways(value) == TRUE

\* "if response_request:" (line 398)
CreatesTicket(value) == Truthy(value)

\* One iteration of "for csr in csrs" up to the append of the ticket.
Submit ==
    /\ pc = "submit"
    /\ si <= Len(csrs)
    /\ \E resp \in EnrollResponses :
          LET r == submit_request(resp)
              subj == Subject(csrs[si])
          IN  /\ enrolled' = Append(enrolled, EnrollOutcome(resp))
              /\ IF r.raised # "none"
                 THEN /\ Abort(r.raised)
                      /\ UNCHANGED << si, requests >>
                 ELSE IF CreatesTicket(r.value)
                      THEN /\ requests' = Append(requests, << r.value, subj >>)
                           /\ pc' = "write_pkey"
                           /\ UNCHANGED << si, exc, exitCode >>
                      ELSE /\ si' = si + 1
                           /\ UNCHANGED << requests, pc, exc, exitCode >>
    /\ UNCHANGED << inputVars, csrs, keyWritten, restclient, waits, pollVars,
                    retrVars, fsVars, reported, probeVars >>

\* csr.write_pkey() (line 402): writes the key, or raises FileWriteException.
WritePkey ==
    /\ pc = "write_pkey"
    /\ \/ /\ keyWritten' = keyWritten \cup {si}
          /\ files' = [files EXCEPT ![KeyPath(csrs[si])] = "key"]
          /\ si' = si + 1
          /\ pc' = "submit"
          /\ UNCHANGED << exc, exitCode >>
       \/ /\ Abort("FileWriteException")
          /\ UNCHANGED << keyWritten, files, si >>
    /\ UNCHANGED << inputVars, csrs, requests, enrolled, restclient, waits,
                    pollVars, retrVars, aside, reported, probeVars >>

\* restclient.closeConnection() (line 405), after the last csr.
CloseConnection ==
    /\ pc = "submit"
    /\ si > Len(csrs)
    /\ restclient' = "closed"
    /\ pc' = "wait"
    /\ UNCHANGED << inputVars, csrs, si, requests, enrolled, keyWritten, waits, pollVars,
                    retrVars, fsVars, exc, exitCode, reported, probeVars >>

\* time.sleep(WAIT_APPROVAL) (lines 407-408)
ApprovalWait ==
    /\ pc = "wait"
    /\ waits' = waits + 1
    /\ pc' = "retrieve"
    /\ UNCHANGED << inputVars, csrs, si, requests, enrolled, keyWritten, restclient,
                    pollVars, retrVars, fsVars, exc, exitCode, reported, probeVars >>

(* ------------------------------------------------------------------ *)
(* Retrieval (main 412-421, retrieve_cert)                             *)
(* ------------------------------------------------------------------ *)
\* Mutant: the budget is off by one.
LoopContinuesOffByOne(n) == n <= MAX_RETRY_RETRIEVAL

\* "for _ in range(retry_count)" starts another iteration after n of them.
LoopContinues(n) == n < MAX_RETRY_RETRIEVAL

\* Mutant: the break after a 200 is missing.
PollOutcomeNoBreak(resp) ==
    IF resp.exc = "BadStatusLine" THEN "sleep"
    ELSE IF resp.exc # "none" THEN "raise"
    ELSE "sleep"

\* Mutant: every HTTPException is swallowed like BadStatusLine.
PollOutcomeSwallow(resp) ==
    IF resp.exc # "none" THEN "sleep"
    ELSE IF resp.status = 200 THEN "break"
    ELSE "sleep"

\* Mutant: a framed response ends the poll whatever its status.
PollOutcomeAnyStatus(resp) ==
    IF resp.exc = "BadStatusLine" THEN "sleep"
    ELSE IF resp.exc # "none" THEN "raise"
    ELSE "break"

\* What one iteration of the loop does with the response of its query:
\* "break" (lines 327-330), "sleep" (the fall through to lines 336-339) or
\* "raise" (lines 334-335).
PollOutcome(resp) ==
    IF resp.exc = "BadStatusLine" THEN "sleep"
    ELSE IF resp.exc # "none" THEN "raise"
    ELSE IF resp.status = 200 THEN "break"
    ELSE "sleep"

\* How the model names the way a query ended.
OutcomeName(resp) ==
    IF resp.exc = "BadStatusLine" THEN "pending"
    ELSE IF resp.exc # "none" THEN "fatal"
    ELSE IF resp.status = 200 THEN "ok"
    ELSE "non200"

\* Mutant: the loop over the tickets stops one short.
MoreTicketsOffByOne == ri < Len(requests)

\* "for request in requests" has a ticket left (line 412).
MoreTickets == ri <= Len(requests)

\* main calls retrieve_cert for the next ticket (lines 412-415); the function
\* initialises its locals (lines 309-315).
RetrieveStart ==
    /\ pc = "retrieve"
    /\ MoreTickets
    /\ calls' = Append(calls, ri)
    /\ clientQueries' = 0
    /\ response_data' = NoneText
    /\ okBody' = NoneText
    /\ attempt' = 0
    /\ queries' = 0
    /\ sleeps' = 0
    /\ nPending' = 0
    /\ onlyPending' = TRUE
    /\ lastOutcome' = "none"
    /\ pc' = IF LoopContinues(0) THEN "poll" ELSE "return"
    /\ UNCHANGED << inputVars, submitVars, connOpen, queried, ri, results,
                    renamed, written, fsVars, exc, exitCode, reported,
                    probeVars >>

\* Mutant: the client is not closed before the break.
OpenAfterTryLeak(o) == 1

\* Clients the try block leaves open: the one it created, unless the 200
\* branch closed it (line 329).
OpenAfterTry(o) == IF o = "break" THEN 0 ELSE 1

\* Mutant: the client of the previous iteration is used again.
QueriesOnClientReused(n) == n + 1

\* Queries made on the client get_request is called on, n being the count
\* of the client of the previous iteration: the client is new (line 320).
QueriesOnClient(n) == 1

\* The try block of one iteration (lines 318-335): a new client, one query,
\* and on a 200 the body is kept, the client closed and the loop left.
Poll ==
    /\ pc = "poll"
    /\ \E resp \in CollectResponses :
          LET o == PollOutcome(resp)
          IN  /\ queries' = queries + 1
              /\ clientQueries' = QueriesOnClient(clientQueries)
              /\ connOpen' = connOpen + OpenAfterTry(o)
              /\ queried' = TRUE
              /\ lastOutcome' = OutcomeName(resp)
              /\ nPending' = IF resp.exc = "BadStatusLine"
                                \/ (resp.exc = "none" /\ resp.status # 200)
                             THEN nPending + 1 ELSE nPending
              /\ onlyPending' = (onlyPending /\ (resp.exc # "none" \/ resp.status = 200))
              /\ okBody' = IF resp.exc = "none" /\ resp.status = 200
                           THEN resp.body ELSE okBody
              /\ response_data' = IF resp.exc = "none" /\ resp.status = 200
                                  THEN resp.body ELSE response_data
              /\ CASE o = "break" -> /\ pc' = "return"
                                     /\ UNCHANGED << exc, exitCode >>
                   [] o = "sleep" -> /\ pc' = "close"
                                     /\ UNCHANGED << exc, exitCode >>
                   [] o = "raise" -> Abort(resp.exc)
    /\ UNCHANGED << inputVars, submitVars, attempt, sleeps, retrVars, fsVars,
                    reported, probeVars >>

\* After the try block (lines 336-338): the message, then the client is closed.
CloseBeforeSleep ==
    /\ pc = "close"
    /\ connOpen' = connOpen - 1
    /\ pc' = "sleep"
    /\ UNCHANGED << inputVars, submitVars, attempt, queries, sleeps, nPending,
                    onlyPending, lastOutcome, okBody, response_data,
                    clientQueries, queried, retrVars, fsVars, exc, exitCode,
                    reported, probeVars >>

\* Mutant: no sleep after the last attempt of the budget.
SleepRetryNotLast ==
    /\ pc = "sleep"
    /\ sleeps' = IF LoopContinues(attempt + 1) THEN sleeps + 1 ELSE sleeps
    /\ attempt' = attempt + 1
    /\ pc' = IF LoopContinues(attempt + 1) THEN "poll" ELSE "return"
    /\ UNCHANGED << inputVars, submitVars, queries, nPending, onlyPending,
                    lastOutcome, okBody, response_data, connOpen,
                    clientQueries, queried, retrVars, fsVars, exc, exitCode,
                    reported, probeVars >>

\* The end of one iteration (line 339): time.sleep(WAIT_RETRIEVAL), then the
\* for statement takes the next value of its range or ends.
SleepRetry ==
    /\ pc = "sleep"
    /\ sleeps' = sleeps + 1
    /\ attempt' = attempt + 1
    /\ pc' = IF LoopContinues(attempt + 1) THEN "poll" ELSE "return"
    /\ UNCHANGED << inputVars, submitVars, queries, nPending, onlyPending,
                    lastOutcome, okBody, response_data, connOpen,
                    clientQueries, queried, retrVars, fsVars, exc, exitCode,
                    reported, probeVars >>

\* Mutant: the test of the returned value is missing.
NeedsWriteAlways(data) == TRUE

\* "if response_retrieve is not None:" (line 417)
NeedsWrite(data) == data # NoneText

\* retrieve_cert returns response_data (line 341), its locals are gone, and
\* main tests the value (line 417).
RetrieveReturn ==
    /\ pc = "return"
    /\ results' = Append(results, response_data)
    /\ IF NeedsWrite(response_data)
       THEN /\ pc' = "rename"
            /\ UNCHANGED ri
       ELSE /\ pc' = "retrieve"
            /\ ri' = ri + 1
    /\ response_data' = NoneText
    /\ okBody' = NoneText
    /\ attempt' = 0
    /\ queries' = 0
    /\ sleeps' = 0
    /\ nPending' = 0
    /\ onlyPending' = TRUE
    /\ lastOutcome' = "none"
    /\ clientQueries' = 0
    /\ UNCHANGED << inputVars, submitVars, connOpen, queried, calls, renamed,
                    written, fsVars, exc, exitCode, reported, probeVars >>

\* utils.safe_rename: a file at the path is moved aside under another name.
safe_rename_files(fs, path) == [fs EXCEPT ![path] = NoFile]

safe_rename_aside(as, fs, path) ==
    IF fs[path] # NoFile THEN Append(as, << path, fs[path] >>) ELSE as

\* utils.atomic_write: the content is at the path.
atomic_write_files(fs, path, content) == [fs EXCEPT ![path] = content]

\* Mutant: the call of safe_rename is missing.
SafeRenameSkipped ==
    /\ pc = "rename"
    /\ pc' = "write"
    /\ UNCHANGED << inputVars, submitVars, pollVars, retrVars, fsVars, exc,
                    exitCode, reported, probeVars >>

\* utils.safe_rename(cert_path) (line 420).
SafeRename ==
    /\ pc = "rename"
    /\ LET path == CertPath(requests[ri][2])
       IN  /\ renamed' = renamed \cup {ri}
           /\ aside' = safe_rename_aside(aside, files, path)
           /\ files' = safe_rename_files(files, path)
    /\ pc' = "write"
    /\ UNCHANGED << inputVars, submitVars, pollVars, ri, results, calls,
                    written, exc, exitCode, reported, probeVars >>

\* Mutant: a failed write is reported and the loop takes the next ticket.
AtomicWriteContinue ==
    /\ pc = "write"
    /\ LET path == CertPath(requests[ri][2])
       IN  \/ /\ files' = atomic_write_files(files, path, results[ri])
              /\ written' = written \cup {ri}
              /\ UNCHANGED << exc, exitCode >>
           \/ /\ exc' = "FileWriteException"
              /\ UNCHANGED << files, written, exitCode >>
    /\ ri' = ri + 1
    /\ pc' = "retrieve"
    /\ UNCHANGED << inputVars, submitVars, pollVars, results, calls, renamed,
                    aside, reported, probeVars >>

\* utils.atomic_write(cert_path, response_retrieve) (line 421): the write
\* is done, or FileWriteException is raised and the path is untouched.
AtomicWrite ==
    /\ pc = "write"
    /\ LET path == CertPath(requests[ri][2])
       IN  \/ /\ files' = atomic_write_files(files, path, results[ri])
              /\ written' = written \cup {ri}
              /\ ri' = ri + 1
              /\ pc' = "retrieve"
              /\ UNCHANGED << exc, exitCode >>
           \/ /\ Abort("FileWriteException")
              /\ UNCHANGED << files, written, ri >>
    /\ UNCHANGED << inputVars, submitVars, pollVars, results, calls, renamed,
                    aside, reported, probeVars >>

(* ------------------------------------------------------------------ *)
(* Summary and exit (main 423-424, 459)                                *)
(* ------------------------------------------------------------------ *)
\* The number printed as "certificates were specified" (line 423).
SummarySpecified == Len(csrs)

\* The number printed as "requested and retrieved successfully" (line 424).
SummaryRetrieved == Len(requests)

Summary ==
    /\ pc = "retrieve"
    /\ ~MoreTickets
    /\ reported' = << SummarySpecified, SummaryRetrieved >>
    /\ Abort("none")
    /\ UNCHANGED << inputVars, submitVars, pollVars, retrVars, fsVars, probeVars >>

\* The user interrupts the run (main 433-435): possible wherever main runs.
Interrupt ==
    /\ pc # "done"
    /\ Abort("KeyboardInterrupt")
    /\ UNCHANGED << inputVars, submitVars, pollVars, retrVars, fsVars, reported,
                    probeVars >>

Next ==
    \/ TestConnection
    \/ BuildCsr
    \/ StartSubmit
    \/ Submit
    \/ WritePkey
    \/ CloseConnection
    \/ ApprovalWait
    \/ RetrieveStart
    \/ Poll
    \/ CloseBeforeSleep
    \/ SleepRetry
    \/ RetrieveReturn
    \/ SafeRename
    \/ AtomicWrite
    \/ Summary
    \/ Interrupt

Spec == Init /\ [][Next]_vars

(* ================================================================== *)
(* Properties                                                          *)
(* ================================================================== *)

\* C1: in retrieve_cert, when the first k queries (0 <= k < 20) each end in
\* BadStatusLine and query k+1 gets a 200, the poller has made exactly k+1
\* queries and slept exactly k times when it leaves the loop, and the value
\* it returns is the body of the 200 response.
C1_PendingThenSuccess ==
    (pc = "return" /\ lastOutcome = "ok" /\ onlyPending) =>
        /\ nPending < MAX_RETRY_RETRIEVAL
        /\ queries = nPending + 1
        /\ sleeps = nPending
        /\ okBody \in CertBodies
        /\ response_data = okBody

C1_Witness ==
    /\ pc = "return" /\ lastOutcome = "ok" /\ onlyPending
    /\ nPending = MAX_RETRY_RETRIEVAL - 1
    /\ response_data = "pem2"

\* C2: when every query ends in BadStatusLine, retrieve_cert leaves the loop
\* after exactly MAX_RETRY_RETRIEVAL queries and returns None, no exception
\* being raised; in every state the queries of one call number at most
\* MAX_RETRY_RETRIEVAL.
C2_Exhausted ==
    /\ queries <= MAX_RETRY_RETRIEVAL
    /\ (pc = "return" /\ lastOutcome # "ok" /\ onlyPending) =>
          /\ queries = MAX_RETRY_RETRIEVAL
          /\ nPending = MAX_RETRY_RETRIEVAL
          /\ response_data = NoneText
          /\ exc = "none"
          /\ exitCode = -1

C2_Witness ==
    /\ pc = "return" /\ lastOutcome = "pending" /\ onlyPending
    /\ queries = MAX_RETRY_RETRIEVAL

\* C3: an HTTPException other than BadStatusLine raised by query i ends the
\* run at once: the exception has reached main, query i is the last one
\* (queries = completed iterations + 1), no sleep followed it (one sleep per
\* completed iteration) and no further step of the program is possible.
C3_FatalPropagates ==
    lastOutcome = "fatal" =>
        /\ pc = "done"
        /\ exc = "HTTPException"
        /\ exitCode # 0
        /\ queries = attempt + 1
        /\ sleeps = attempt
        /\ ~ ENABLED Next

C3_Witness ==
    /\ lastOutcome = "fatal"
    /\ queries = MAX_RETRY_RETRIEVAL
    /\ ri = 2

\* C4 as stated: retrieve_cert sleeps and queries again only after a query
\* that ended in BadStatusLine.
C4_OnlyPendingRetries ==
    (pc \in {"close", "sleep"} \/ (pc = "poll" /\ queries > 0))
        => lastOutcome = "pending"

\* C4 as amended: retrieve_cert sleeps and queries again only after a query
\* that ended in BadStatusLine or in a framed response whose status is not
\* 200; a 200 ends the poll as delivered, any other exception ends the run,
\* and a non-200 response ends the poll only with the budget.
C4_RetryConditions ==
    /\ (pc \in {"close", "sleep"} \/ (pc = "poll" /\ queries > 0))
          => lastOutcome \in {"pending", "non200"}
    /\ lastOutcome = "ok" => pc \in {"return", "done"}
    /\ lastOutcome = "fatal" => pc = "done"
    /\ (lastOutcome = "non200" /\ pc = "return") => attempt = MAX_RETRY_RETRIEVAL

C4_Witness ==
    /\ pc = "poll"
    /\ lastOutcome = "non200"
    /\ queries = 1

\* The csr positions whose POST ended the way named o.
EnrolledAs(o) == { i \in DOMAIN enrolled : enrolled[i] = o }

\* The run ended through line 459, no exception having reached main.
CompletedRun == pc = "done" /\ exc = "none" /\ ~test

\* C5: outside test mode every Csr is built before the first POST, every
\* POST is made before the approval sleep, the approval sleep comes before
\* the first retrieval query, and a run that gets past the submissions
\* sleeps for approval exactly once, also when it holds no ticket.
C5_StagedOrder ==
    /\ Len(enrolled) > 0 => AllBuilt
    /\ waits > 0 => (AllBuilt /\ Len(enrolled) = Len(csrs))
    /\ queried => waits = 1
    /\ waits <= 1
    /\ pc \in {"retrieve", "poll", "close", "sleep", "return", "rename", "write"}
          => waits = 1
    /\ CompletedRun => waits = 1

C5_Witness ==
    /\ queried
    /\ waits = 1
    /\ Len(csrs) = 2
    /\ Len(enrolled) = 2
    /\ pc = "poll"

\* C6: write_pkey has run only for csrs whose POST returned a tracking id,
\* and a key file exists only at the key path of such a csr: a host without
\* ticket never gets a key file.
C6_KeyAfterTicket ==
    /\ keyWritten \subseteq EnrolledAs("id")
    /\ \A p \in Paths :
          (p[2] = "-key.pem" /\ files[p] # NoFile)
             => \E i \in EnrolledAs("id") : KeyPath(csrs[i]) = p

C6_Witness ==
    /\ CompletedRun
    /\ enrolled = << "id", "non200" >>
    /\ keyWritten = {1}
    /\ files[KeyPath(csrs[1])] = "key"
    /\ files[KeyPath(csrs[2])] = NoFile

\* C7: a POST answered with a status other than 200 creates no ticket and
\* the loop goes on to the next csr; a run that no exception ends has
\* POSTed every csr, has called retrieve_cert once per ticket, reports as
\* its second number the csrs less those without ticket, and exits with 0.
C7_Non200Absorbed ==
    /\ Len(requests) = Cardinality(EnrolledAs("id"))
    /\ (Len(enrolled) > 0 /\ enrolled[Len(enrolled)] = "non200")
          => si = Len(enrolled) + 1
    /\ CompletedRun =>
          /\ Len(enrolled) = Len(csrs)
          /\ Len(results) = Len(requests)
          /\ reported = << Len(csrs),
                           Len(csrs) - Cardinality(DOMAIN enrolled \ EnrolledAs("id")) >>
          /\ exitCode = 0

C7_Witness ==
    /\ CompletedRun
    /\ enrolled = << "non200", "id" >>
    /\ Len(requests) = 1
    /\ Len(results) = 1
    /\ reported = << 2, 1 >>
    /\ exitCode = 0

\* C8: a POST answered with 200 and a body without the sslId field creates
\* no ticket and the loop goes on to the next csr, no exception ending the
\* run.
C8_MissingFieldContinues ==
    (Len(enrolled) > 0 /\ enrolled[Len(enrolled)] = "nofield")
        => /\ si = Len(enrolled) + 1
           /\ exc # "KeyError"
           /\ Len(requests) = Cardinality(EnrolledAs("id"))

\* C9: the second number of the summary is the number of tickets for which
\* retrieve_cert returned a certificate, which is the number of certificate
\* files written.
C9_SummaryCountsRetrieved ==
    reported # << >> =>
        /\ reported[2] = Cardinality({ i \in DOMAIN results : results[i] # NoneText })
        /\ reported[2] = Cardinality(written)

\* C10: a ticket for which retrieve_cert returned None gets no safe_rename
\* and no atomic_write, the retrieval loop goes on to the next ticket, and
\* a run that no exception ends has called retrieve_cert for every ticket
\* and exits with 0.
C10_ExhaustedAbsorbed ==
    /\ \A i \in DOMAIN results :
          results[i] = NoneText
             => (i \notin renamed /\ i \notin written /\ ri > i)
    /\ CompletedRun => (Len(results) = Len(requests) /\ exitCode = 0)

C10_Witness ==
    /\ CompletedRun
    /\ exitCode = 0
    /\ Len(results) = 2
    /\ results[1] = NoneText
    /\ results[2] # NoneText
    /\ renamed = {2}
    /\ written = {2}

\* The ticket whose artifact a FileWriteException was raised for: the one
\* just appended when write_pkey failed, the current one when atomic_write
\* failed.
FailedTicket == IF waits = 0 THEN Len(requests) ELSE ri

\* C11 as stated: after a FileWriteException every other ticket is still
\* retrieved, and written when a certificate came back.
C11_WriteFailureLocal ==
    (pc = "done" /\ exc = "FileWriteException") =>
        \A j \in DOMAIN requests \ {FailedTicket} :
            /\ j \in DOMAIN results
            /\ results[j] # NoneText => j \in written

\* C11 as amended: a FileWriteException ends the run with exit status 1;
\* after a failed write_pkey no csr is submitted any more and nothing is
\* retrieved, after a failed atomic_write no later ticket is retrieved, and
\* no step of the program follows.
C11_WriteFailureFatal ==
    exc = "FileWriteException" =>
        /\ pc = "done"
        /\ exitCode = 1
        /\ ~ ENABLED Next
        /\ waits = 0 => (si = Len(enrolled) /\ si \notin keyWritten
                          /\ results = << >> /\ calls = << >> /\ ~queried)
        /\ waits = 1 => (Len(calls) = ri /\ Len(results) = ri
                          /\ ri \notin written
                          /\ files[CertPath(requests[ri][2])] = NoFile)

C11_Witness ==
    /\ exc = "FileWriteException"
    /\ waits = 1
    /\ Len(requests) = 2
    /\ ri = 1
    /\ calls = << 1 >>

\* The certificate path of ticket j.
TicketPath(j) == CertPath(requests[j][2])

\* The contents ever put at certificate path p, oldest first: the file that
\* was there when main started, then what atomic_write wrote.
CreatedAt(p) ==
    LET idx == [j \in 1..Len(results) |-> j]
        w == SelectSeq(idx, LAMBDA j : j \in written /\ TicketPath(j) = p)
    IN  (IF p \in preexisting THEN << "old" >> ELSE << >>)
        \o [k \in 1..Len(w) |-> results[w[k]]]

\* The contents that exist for certificate path p, oldest first: the files
\* renamed aside, then the file at the path.
PresentFor(p) ==
    LET a == SelectSeq(aside, LAMBDA e : e[1] = p)
    IN  [k \in 1..Len(a) |-> a[k][2]]
        \o (IF files[p] # NoFile THEN << files[p] >> ELSE << >>)

\* C12: safe_rename of a certificate path runs before atomic_write of that
\* path, which therefore finds the path vacant; no content ever put at a
\* certificate path is overwritten or deleted: each is either renamed aside
\* or, for the newest, at the path, where it equals the retrieved bytes.
C12_RenameBeforeWrite ==
    /\ written \subseteq renamed
    /\ pc = "write" => (ri \in renamed /\ files[TicketPath(ri)] = NoFile)
    /\ \A j \in written : files[TicketPath(j)] \in CertBodies \cup {NoFile}
    /\ \A p \in CertPaths : PresentFor(p) = CreatedAt(p)

C12_Witness ==
    /\ CompletedRun
    /\ written = {1}
    /\ TicketPath(1) \in preexisting
    /\ results[1] = "pem1"
    /\ files[TicketPath(1)] = "pem1"
    /\ aside = << << TicketPath(1), "old" >> >>

\* C13: identical host tuples collapse: no two Csr objects are built from
\* the same tuple, once the loop over set(hosts) is over there is one Csr
\* per distinct tuple of the host list, and a run that no exception ends
\* has made one POST per distinct tuple.
C13_Dedup ==
    /\ Len(csrs) <= Cardinality(HostSet(hosts))
    /\ \A i, j \in DOMAIN csrs : csrs[i] = csrs[j] => i = j
    /\ pc \notin {"main", "done"} => Len(csrs) = Cardinality(HostSet(hosts))
    /\ Len(enrolled) <= Len(csrs)
    /\ CompletedRun =>
          /\ Len(csrs) = Cardinality(HostSet(hosts))
          /\ Len(enrolled) = Cardinality(HostSet(hosts))

C13_Witness ==
    /\ CompletedRun
    /\ Len(hosts) = 2
    /\ hosts[1] = hosts[2]
    /\ Len(csrs) = 1
    /\ Len(enrolled) = 1

\* C14: retrieve_cert is called for the tickets in order, each at most once,
\* and for nothing else: there are exactly as many tickets as POSTs that
\* returned a tracking id, and a run that no exception ends has called
\* retrieve_cert exactly once for every ticket.
C14_TicketConsumedOnce ==
    /\ Len(requests) = Cardinality(EnrolledAs("id"))
    /\ calls = [k \in 1..Len(calls) |-> k]
    /\ Len(calls) <= Len(requests)
    /\ Len(results) <= Len(calls)
    /\ CompletedRun => (Len(calls) = Len(requests) /\ Len(results) = Len(calls))

C14_Witness ==
    /\ CompletedRun
    /\ enrolled = << "falsy", "id" >>
    /\ Len(requests) = 1
    /\ calls = << 1 >>
    /\ Len(results) = 1

\* The conditions C15 names fatal, as the exception main's handlers get: a
\* transport exception, a user interrupt, a file-write failure.
FatalConditions == { "HTTPException", "KeyboardInterrupt", "FileWriteException" }

\* C15: a fatal condition ends the run with a non-zero exit status and no
\* step of the program follows it; a run that ends without a fatal
\* condition exits with status 0.
C15_FatalEndsRun ==
    /\ exc \in FatalConditions =>
          (pc = "done" /\ exitCode # 0 /\ ~ ENABLED Next)
    /\ (pc = "done" /\ exc \notin FatalConditions) => exitCode = 0

\* C16: every query of retrieve_cert is made on a client created for it and
\* used for nothing else; after a failed attempt the client is closed
\* before the sleep, the next attempt starts with no client open, and the
\* poller returns with no client open.
C16_FreshConnection ==
    /\ clientQueries <= 1
    /\ (queries > 0 /\ pc \in {"close", "sleep", "poll", "return"})
          => clientQueries = 1
    /\ pc = "close" => (connOpen = 1 /\ sleeps = attempt)
    /\ pc = "sleep" => (connOpen = 0 /\ sleeps = attempt)
    /\ pc = "poll" => connOpen = 0
    /\ pc = "return" => connOpen = 0

C16_Witness ==
    /\ pc = "return"
    /\ lastOutcome = "ok"
    /\ queries = 2
    /\ nPending = 1
    /\ onlyPending
    /\ clientQueries = 1
    /\ connOpen = 0

\* C17: retrieve_cert has slept once for every attempt that neither
\* delivered nor raised, the last of the budget included: when it returns
\* without a certificate it has slept MAX_RETRY_RETRIEVAL times.
C17_SleepPerFailedAttempt ==
    /\ pc \in {"poll", "return"} => sleeps = nPending
    /\ pc \in {"close", "sleep"} => sleeps = nPending - 1
    /\ lastOutcome = "fatal" => sleeps = nPending
    /\ (pc = "return" /\ lastOutcome # "ok")
          => (sleeps = MAX_RETRY_RETRIEVAL /\ queries = MAX_RETRY_RETRIEVAL)

C17_Witness ==
    /\ pc = "return"
    /\ lastOutcome = "non200"
    /\ queries = MAX_RETRY_RETRIEVAL
    /\ sleeps = MAX_RETRY_RETRIEVAL

\* C18: at most one retrieval client is open at any time and none is open
\* once retrieve_cert has returned; the shared client is closed before the
\* approval sleep, stays closed, and every POST was made before it closed.
C18_Connections ==
    /\ connOpen \in {0, 1}
    /\ pc \in {"return", "rename", "write", "retrieve"} => connOpen = 0
    /\ CompletedRun => (connOpen = 0 /\ restclient = "closed")
    /\ (pc = "wait" \/ waits > 0 \/ queried) => restclient = "closed"
    /\ (restclient = "closed" /\ ~test)
          => (si > Len(csrs) /\ Len(enrolled) = Len(csrs))

C18_Witness ==
    /\ pc = "return"
    /\ lastOutcome = "pending"
    /\ ri = 2
    /\ connOpen = 0
    /\ restclient = "closed"

\* C19: host tuples with the same common name and different alt names each
\* get their own Csr and POST; their certificates have the same path, and
\* when both are written the earlier one is renamed aside and the later one
\* is at the path.
C19_SameNameDifferentAlts ==
    /\ pc \notin {"main", "done"}
          => \A h \in HostSet(hosts) : \E i \in DOMAIN csrs : csrs[i] = Csr(h)
    /\ CompletedRun =>
          /\ \A h \in HostSet(hosts) : \E i \in DOMAIN csrs : csrs[i] = Csr(h)
          /\ Len(enrolled) = Len(csrs)
    /\ \A i, j \in DOMAIN csrs :
          csrs[i].common_name = csrs[j].common_name
             => CertPath(Subject(csrs[i])) = CertPath(Subject(csrs[j]))
    /\ \A i, j \in written :
          (i < j /\ TicketPath(i) = TicketPath(j))
             => /\ \E k \in DOMAIN aside : aside[k] = << TicketPath(i), results[i] >>
                /\ (\A m \in written : TicketPath(m) = TicketPath(j) => m <= j)
                      => files[TicketPath(j)] = results[j]

C19_Witness ==
    /\ CompletedRun
    /\ Len(csrs) = 2
    /\ csrs[1].common_name = csrs[2].common_name
    /\ csrs[1].altnames # csrs[2].altnames
    /\ written = {1, 2}
    /\ results = << "pem1", "pem2" >>
    /\ files[TicketPath(2)] = "pem2"
    /\ \E k \in DOMAIN aside : aside[k] = << TicketPath(1), "pem1" >>

\* The files as they were when main started.
InitialFiles == [p \in Paths |-> IF p \in preexisting THEN "old" ELSE NoFile]

\* C20: in test mode the run makes one GET of the listing endpoint and no
\* Csr, POST, retrieval query, approval sleep or file change; when the GET
\* got a response, whatever its status, the client is closed and the run
\* exits with status 0.  Outside test mode there is no such GET.
C20_TestMode ==
    /\ ~test => probes = 0
    /\ test =>
          /\ probes <= 1
          /\ pc = "done" => probes = 1 \/ exc = "KeyboardInterrupt"
          /\ csrs = << >> /\ enrolled = << >> /\ requests = << >>
          /\ calls = << >> /\ ~queried /\ waits = 0
          /\ keyWritten = {} /\ renamed = {} /\ written = {}
          /\ files = InitialFiles /\ aside = << >>
    /\ (test /\ probeStatus # 0)
          => /\ pc = "done"
             /\ probes = 1
             /\ restclient = "closed"
             /\ exc = "none"
             /\ exitCode = 0

C20_Witness ==
    /\ test
    /\ pc = "done"
    /\ probes = 1
    /\ probeStatus = 401
    /\ restclient = "closed"
    /\ exitCode = 0

====
